---- MODULE Spec2Model ----
(***************************************************************************)
(* prime-factorization (src/src/lib.rs): Miller-Rabin primality test,      *)
(* Pollard's rho factor finder and the recursive factorization routine,    *)
(* modelled as one sequential machine.  A behaviour is one call of a       *)
(* function of the crate; every pc value is a place in lib.rs.             *)
(* The unsigned width (u128 in the code) is scaled down to Width bits and  *)
(* the U256 intermediate to 2*Width bits.                                  *)
(***************************************************************************)
EXTENDS Integers, Sequences, FiniteSets, TLC

\* ------------------------------------------------------------------ bounds
Width == 7
MaxN == 50
MaxK == 2
MulSpan == 2
MaxCycle == 8

\* ------------------------------------------------------- program constants
Rounds == 100

VARIABLES call, pc, frames, ip, mr, rho, once, tried, batches, result

vars == <<call, pc, frames, ip, mr, rho, once, tried, batches, result>>

\* --------------------------------------------------------- integer widths
U128Modulus == 2 ^ Width
U256Modulus == 2 ^ (2 * Width)

U256_from(a) == a

U256_mul(a, b) == (a * b) % U256Modulus

\* as_u128 panics when the value does not fit; Overflow stands for the panic
Overflow == 0 - 1
as_u128(v) == IF v < U128Modulus THEN v ELSE Overflow

\* ------------------------------------------------------------- arithmetic
mul_mod_narrow(a, b, m) == ((a * b) % U128Modulus) % m
mul_mod(a, b, m) == as_u128(U256_mul(U256_from(a), U256_from(b)) % U256_from(m))

RECURSIVE pow_mod(_, _, _)
pow_mod(a, n, m) ==
    IF n = 0 THEN 1 % m
    ELSE IF n = 1 THEN a % m
    ELSE LET t  == pow_mod(a, n \div 2, m)
             t2 == mul_mod(t, t, m)
         IN IF n % 2 = 0 THEN t2 ELSE mul_mod(t2, a, m)

RECURSIVE gcd(_, _)
gcd(a, b) == IF b = 0 THEN a ELSE gcd(b, a % b)

RECURSIVE trailing_zeros(_)
trailing_zeros(v) ==
    IF v = 0 THEN Width
    ELSE IF v % 2 = 1 THEN 0
    ELSE 1 + trailing_zeros(v \div 2)

\* ------------------------------------------------------ Miller-Rabin round
\* for _ in 1..r { x = pow_mod(x, 2, n); if x == n - 1 { continue 'outer } }
RECURSIVE SquaringLoop(_, _, _, _)
SquaringLoop(x, n, j, r) ==
    IF j >= r THEN FALSE
    ELSE LET x2 == pow_mod(x, 2, n)
         IN IF x2 = n - 1 THEN TRUE ELSE SquaringLoop(x2, n, j + 1, r)

\* one round of the 'outer loop with witness a: TRUE when the round continues
RoundPasses_short(n, a, r, d) ==
    LET x == pow_mod(a, d, n)
    IN IF x = 1 \/ x = n - 1 THEN TRUE ELSE SquaringLoop(x, n, 2, r)
RoundPasses(n, a, r, d) ==
    LET x == pow_mod(a, d, n)
    IN IF x = 1 \/ x = n - 1 THEN TRUE ELSE SquaringLoop(x, n, 1, r)

\* the match of is_prime
is_prime_match_four(n) ==
    IF n \in {0, 1} THEN "false" ELSE IF n \in {2, 3, 4} THEN "true" ELSE "test"
is_prime_match(n) ==
    IF n \in {0, 1} THEN "false" ELSE IF n \in {2, 3} THEN "true" ELSE "test"

\* ------------------------------------------------------------ Pollard rho
BatchLen_one(cycle) == 1
BatchLen_half(cycle) == 2 ^ (cycle - 1)
BatchLen(cycle) == 2 ^ cycle

FirstCycle == 1

\* return if factor != n { Some(factor) } else { None }
OnceOutcome_always(factor, n) == "Some"
OnceOutcome(factor, n) == IF factor # n THEN "Some" ELSE "None"

\* for x in 2..n
SeedEnd_short(n) == n - 1
SeedEnd(n) == n

\* ----------------------------------------------------------- factorization
Cofactor(n, factor) == n \div factor

RECURSIVE Insert_dedup(_, _)
Insert_dedup(s, v) ==
    IF s = <<>> THEN <<v>>
    ELSE IF v = Head(s) THEN s
    ELSE IF v < Head(s) THEN <<v>> \o s
    ELSE <<Head(s)>> \o Insert_dedup(Tail(s), v)

RECURSIVE Insert(_, _)
Insert(s, v) ==
    IF s = <<>> THEN <<v>>
    ELSE IF v <= Head(s) THEN <<v>> \o s
    ELSE <<Head(s)>> \o Insert(Tail(s), v)

RECURSIVE Sort(_)
Sort(s) == IF s = <<>> THEN <<>> ELSE Insert(Sort(Tail(s)), Head(s))

\* ------------------------------------------------------------ state shapes
NoResult == [tag |-> "none", val |-> 0, list |-> <<>>]
Value(t, v) == [tag |-> t, val |-> v, list |-> <<>>]
Panic(line) == [tag |-> "panic", val |-> line, list |-> <<>>]
Factors(l) == [tag |-> "factors", val |-> 0, list |-> l]

NoMr == [n |-> 0, k |-> 0, r |-> 0, d |-> 0, i |-> 0]
NoRho == [n |-> 0, phase |-> "none", seed |-> 0]
NoOnce == [n |-> 0, x |-> 0, y |-> 0, cycle |-> 0, i |-> 0]
NewOnce(n, x) == [n |-> n, x |-> x, y |-> 0, cycle |-> FirstCycle, i |-> 0]
NewFrame(n) == [n |-> n, ret |-> <<>>, at |-> "L8", factor |-> 0]

Top == frames[Len(frames)]
SetTop(f) == [frames EXCEPT ![Len(frames)] = f]
Pop == SubSeq(frames, 1, Len(frames) - 1)

\* ------------------------------------------------------------------- calls
MulModuli == (1..MulSpan) \cup ((U128Modulus - MulSpan)..(U128Modulus - 1))

Calls ==
    [fn : {"factorization"}, n : 2..MaxN, k : {0}, x : {0}, a : {0}, b : {0}]
    \cup [fn : {"is_prime"}, n : 0..MaxN, k : {0}, x : {0}, a : {0}, b : {0}]
    \cup [fn : {"miller_rabin_test"}, n : 2..MaxN, k : 0..MaxK, x : {0}, a : {0}, b : {0}]
    \cup [fn : {"pollard_rho"}, n : 2..MaxN, k : {0}, x : {0}, a : {0}, b : {0}]
    \cup [fn : {"pollard_rho_once"}, n : 2..MaxN, k : {0}, x : 0..MaxN, a : {0}, b : {0}]
    \cup { c \in [fn : {"mul_mod"}, n : MulModuli, k : {0}, x : {0},
                  a : 0..(U128Modulus - 1), b : 0..(U128Modulus - 1)] :
             c.a < c.n /\ c.b < c.n }

Init ==
    /\ call \in Calls
    /\ pc = call.fn
    /\ frames = IF call.fn = "factorization" THEN <<NewFrame(call.n)>> ELSE <<>>
    /\ ip = IF call.fn = "is_prime" THEN call.n ELSE 0
    /\ mr = IF call.fn = "miller_rabin_test"
            THEN [n |-> call.n, k |-> call.k, r |-> 0, d |-> 0, i |-> 0]
            ELSE NoMr
    /\ rho = IF call.fn = "pollard_rho"
             THEN [n |-> call.n, phase |-> "none", seed |-> 0]
             ELSE NoRho
    /\ once = IF call.fn = "pollard_rho_once" THEN NewOnce(call.n, call.x) ELSE NoOnce
    /\ tried = <<>>
    /\ batches = <<>>
    /\ result = NoResult

\* ----------------------------------------------------------------- actions
\* line 8: if is_prime(n)
FactorizationCall ==
    /\ pc = "factorization"
    /\ ip' = Top.n
    /\ pc' = "is_prime"
    /\ UNCHANGED <<call, frames, mr, rho, once, tried, batches, result>>

\* lines 31-37
IsPrime ==
    /\ pc = "is_prime"
    /\ IF is_prime_match(ip) = "test"
       THEN /\ mr' = [n |-> ip, k |-> Rounds, r |-> 0, d |-> 0, i |-> 0]
            /\ pc' = "miller_rabin_test"
            /\ UNCHANGED result
       ELSE /\ result' = Value(is_prime_match(ip), 0)
            /\ pc' = "is_prime_ret"
            /\ UNCHANGED mr
    /\ UNCHANGED <<call, frames, ip, rho, once, tried, batches>>

\* lines 84-87
MillerRabinEntry ==
    /\ pc = "miller_rabin_test"
    /\ LET r == trailing_zeros(mr.n - 1)
       IN mr' = [mr EXCEPT !.r = r, !.d = (mr.n - 1) \div (2 ^ r)]
    /\ pc' = "mr_loop"
    /\ UNCHANGED <<call, frames, ip, rho, once, tried, batches, result>>

\* lines 88-102: one iteration of 'outer
MillerRabinRound ==
    /\ pc = "mr_loop"
    /\ mr.i < mr.k
    /\ IF 2 >= mr.n - 2 + 1
       THEN /\ result' = Panic(89)
            /\ pc' = "panic"
            /\ mr' = NoMr
       ELSE \E a \in 2..(mr.n - 2) :
              IF RoundPasses(mr.n, a, mr.r, mr.d)
              THEN /\ mr' = [mr EXCEPT !.i = mr.i + 1]
                   /\ UNCHANGED <<pc, result>>
              ELSE /\ result' = Value("Composite", 0)
                   /\ pc' = "miller_rabin_test_ret"
                   /\ mr' = NoMr
    /\ UNCHANGED <<call, frames, ip, rho, once, tried, batches>>

\* line 103
MillerRabinExit ==
    /\ pc = "mr_loop"
    /\ mr.i = mr.k
    /\ result' = Value("ProbablyPrime", 0)
    /\ pc' = "miller_rabin_test_ret"
    /\ mr' = NoMr
    /\ UNCHANGED <<call, frames, ip, rho, once, tried, batches>>

\* line 35: miller_rabin_test(n, 100) == MillerRabinResult::ProbablyPrime
IsPrimeCompare ==
    /\ pc = "miller_rabin_test_ret"
    /\ call.fn # "miller_rabin_test"
    /\ result' = Value(IF result.tag = "ProbablyPrime" THEN "true" ELSE "false", 0)
    /\ pc' = "is_prime_ret"
    /\ UNCHANGED <<call, frames, ip, mr, rho, once, tried, batches>>

\* lines 8-13
FactorizationEarlyReturn ==
    /\ pc = "is_prime_ret"
    /\ call.fn = "factorization"
    /\ Top.at = "L8"
    /\ IF result.tag = "true"
       THEN /\ result' = Factors(<<Top.n>>)
            /\ frames' = Pop
            /\ pc' = "factorization_ret"
            /\ ip' = 0
       ELSE /\ frames' = SetTop([Top EXCEPT !.at = "L15", !.ret = <<>>])
            /\ result' = NoResult
            /\ ip' = Top.n
            /\ pc' = "is_prime"
    /\ UNCHANGED <<call, mr, rho, once, tried, batches>>

\* lines 15-16 and 23-28
FactorizationWhile ==
    /\ pc = "is_prime_ret"
    /\ call.fn = "factorization"
    /\ Top.at = "L15"
    /\ IF result.tag = "false"
       THEN /\ rho' = [n |-> Top.n, phase |-> "none", seed |-> 0]
            /\ result' = NoResult
            /\ pc' = "pollard_rho"
            /\ UNCHANGED frames
       ELSE /\ result' = Factors(Sort(IF Top.n > 1 THEN Append(Top.ret, Top.n)
                                                   ELSE Top.ret))
            /\ frames' = Pop
            /\ pc' = "factorization_ret"
            /\ UNCHANGED rho
    /\ ip' = 0
    /\ UNCHANGED <<call, mr, once, tried, batches>>

\* lines 16-19: the asserts and the recursive call
FactorizationFactor ==
    /\ pc = "pollard_rho_ret"
    /\ call.fn = "factorization"
    /\ LET factor == result.val
       IN IF ~(Top.n > factor)
          THEN /\ result' = Panic(17)
               /\ pc' = "panic"
               /\ UNCHANGED frames
          ELSE IF ~(Top.n % factor = 0)
          THEN /\ result' = Panic(18)
               /\ pc' = "panic"
               /\ UNCHANGED frames
          ELSE /\ frames' = Append(SetTop([Top EXCEPT !.at = "L19", !.factor = factor]),
                                   NewFrame(factor))
               /\ result' = NoResult
               /\ pc' = "factorization"
    /\ UNCHANGED <<call, ip, mr, rho, once, tried, batches>>

\* lines 19-20, then the loop condition of line 15
FactorizationAppend ==
    /\ pc = "factorization_ret"
    /\ frames # <<>>
    /\ LET n2 == Cofactor(Top.n, Top.factor)
       IN /\ frames' = SetTop([Top EXCEPT !.ret = Top.ret \o result.list,
                                          !.n = n2, !.at = "L15", !.factor = 0])
          /\ ip' = n2
    /\ result' = NoResult
    /\ pc' = "is_prime"
    /\ UNCHANGED <<call, mr, rho, once, tried, batches>>

\* line 46: pollard_rho_once(n, 2)
PollardRhoFirst ==
    /\ pc = "pollard_rho"
    /\ rho' = [rho EXCEPT !.phase = "first", !.seed = 2]
    /\ once' = NewOnce(rho.n, 2)
    /\ tried' = <<2>>
    /\ batches' = <<>>
    /\ pc' = "pollard_rho_once"
    /\ UNCHANGED <<call, frames, ip, mr, result>>

\* lines 46-55: the outcome of an attempt, and the next seed of `for x in 2..n`
PollardRhoNext ==
    /\ pc = "pollard_rho_once_ret"
    /\ call.fn # "pollard_rho_once"
    /\ IF result.tag = "Some"
       THEN /\ result' = Value("factor", result.val)
            /\ pc' = "pollard_rho_ret"
            /\ rho' = NoRho
            /\ tried' = <<>>
            /\ UNCHANGED once
       ELSE LET x == IF rho.phase = "first" THEN 2 ELSE rho.seed + 1
            IN IF x < SeedEnd(rho.n)
               THEN /\ rho' = [rho EXCEPT !.phase = "loop", !.seed = x]
                    /\ once' = NewOnce(rho.n, x)
                    /\ tried' = Append(tried, x)
                    /\ result' = NoResult
                    /\ pc' = "pollard_rho_once"
               ELSE /\ result' = Panic(55)
                    /\ pc' = "panic"
                    /\ UNCHANGED <<rho, once, tried>>
    /\ batches' = <<>>
    /\ UNCHANGED <<call, frames, ip, mr>>

\* lines 59-60: for cycle in 1.. { let y = x;
OnceBatch ==
    /\ pc = "pollard_rho_once"
    /\ once' = [once EXCEPT !.y = once.x, !.i = 0]
    /\ pc' = "once_inner"
    /\ UNCHANGED <<call, frames, ip, mr, rho, tried, batches, result>>

\* lines 61-69: one iteration of `for _ in 0..1 << cycle`
OnceStep ==
    /\ pc = "once_inner"
    /\ once.i < BatchLen(once.cycle)
    /\ LET x1 == mul_mod(once.x, once.x, once.n)
           x2 == (x1 + 1) % once.n
           d == IF x2 >= once.y THEN x2 - once.y ELSE once.y - x2
           factor == gcd(d, once.n)
       IN IF factor > 1
          THEN /\ result' = Value(OnceOutcome(factor, once.n),
                                  IF OnceOutcome(factor, once.n) = "Some" THEN factor ELSE 0)
               /\ pc' = "pollard_rho_once_ret"
               /\ once' = NoOnce
          ELSE /\ once' = [once EXCEPT !.x = x2, !.i = once.i + 1]
               /\ UNCHANGED <<pc, result>>
    /\ UNCHANGED <<call, frames, ip, mr, rho, tried, batches>>

\* line 61 exhausted: the batch is over, next cycle
OnceBatchEnd ==
    /\ pc = "once_inner"
    /\ once.i = BatchLen(once.cycle)
    /\ once.cycle < MaxCycle
    /\ once' = [once EXCEPT !.cycle = once.cycle + 1]
    /\ batches' = Append(batches, once.i)
    /\ pc' = "pollard_rho_once"
    /\ UNCHANGED <<call, frames, ip, mr, rho, tried, result>>

\* lines 122-124
MulMod ==
    /\ pc = "mul_mod"
    /\ LET v == mul_mod(call.a, call.b, call.n)
       IN IF v = Overflow
          THEN result' = Panic(123) /\ pc' = "panic"
          ELSE result' = Value("value", v) /\ pc' = "mul_mod_ret"
    /\ UNCHANGED <<call, frames, ip, mr, rho, once, tried, batches>>

Next ==
    \/ FactorizationCall
    \/ IsPrime
    \/ MillerRabinEntry
    \/ MillerRabinRound
    \/ MillerRabinExit
    \/ IsPrimeCompare
    \/ FactorizationEarlyReturn
    \/ FactorizationWhile
    \/ FactorizationFactor
    \/ FactorizationAppend
    \/ PollardRhoFirst
    \/ PollardRhoNext
    \/ OnceBatch
    \/ OnceStep
    \/ OnceBatchEnd
    \/ MulMod

Spec == Init /\ [][Next]_vars

\* the program is sequential and keeps running until it returns or panics
FairSpec == Init /\ [][Next]_vars /\ WF_vars(Next)

\* ------------------------------------------------------ auxiliary notions
Returned == pc = call.fn \o "_ret" /\ frames = <<>>
Panicked == pc = "panic"

IsPrimeNumber(n) == n >= 2 /\ \A q \in 2..(n - 1) : n % q # 0
IsComposite(n) == n >= 4 /\ ~IsPrimeNumber(n)

RECURSIVE Product(_)
Product(s) == IF s = <<>> THEN 1 ELSE Head(s) * Product(Tail(s))

Elements(s) == { s[j] : j \in 1..Len(s) }

\* ------------------------------------------------------------------ claims

\* C1: every list returned by factorization, at the top level and in the
\* recursive calls, has a product equal to the argument of that call,
\* whatever witnesses were drawn.
C1_ProductIsN ==
    (call.fn = "factorization" /\ pc = "factorization_ret") =>
        Product(result.list) = (IF frames = <<>> THEN call.n ELSE Top.factor)

C1_Witness ==
    /\ call.fn = "factorization"
    /\ Returned
    /\ Len(result.list) >= 3
    /\ Product(result.list) = call.n

\* C2 as stated: every element of the list returned by factorization(x) is a
\* prime number, whatever witnesses the random source draws.
C2_AllFactorsPrime ==
    (call.fn = "factorization" /\ Returned) =>
        \A f \in Elements(result.list) : IsPrimeNumber(f)

HasStrongLiar(f) ==
    /\ f >= 5
    /\ \E a \in 2..(f - 2) :
         RoundPasses(f, a, trailing_zeros(f - 1),
                     (f - 1) \div (2 ^ trailing_zeros(f - 1)))

\* C2 amended: every element of the list returned by factorization(x) is a
\* prime number or a composite strong pseudoprime to some base in [2, f-2]
\* (the witnesses is_prime drew for it were all strong liars); a composite
\* without a strong liar is never returned.
C2_PrimeOrStrongPseudoprime ==
    (call.fn = "factorization" /\ Returned) =>
        \A f \in Elements(result.list) : IsPrimeNumber(f) \/ HasStrongLiar(f)

C2_Witness ==
    /\ call.fn = "factorization"
    /\ Returned
    /\ \E f \in Elements(result.list) : IsComposite(f) /\ HasStrongLiar(f)

\* C3: a prime is never reported composite: for a prime n >= 5 and any k,
\* miller_rabin_test(n, k) neither returns Composite nor panics, whatever the
\* witnesses, and is_prime(p) returns true for every prime p >= 2.
C3_PrimeNeverComposite ==
    /\ (call.fn = "miller_rabin_test" /\ call.n >= 5 /\ IsPrimeNumber(call.n)) =>
          /\ ~Panicked
          /\ Returned => result.tag = "ProbablyPrime"
    /\ (call.fn = "is_prime" /\ IsPrimeNumber(call.n)) =>
          /\ ~Panicked
          /\ Returned => result.tag = "true"

C3_Witness ==
    /\ call.fn = "miller_rabin_test"
    /\ call.n >= 5
    /\ IsPrimeNumber(call.n)
    /\ call.k = MaxK
    /\ Returned
    /\ result.tag = "ProbablyPrime"

\* C4: for a composite n >= 4, pollard_rho(n) never reaches unreachable!() and
\* returns u with 1 < u < n and n mod u = 0, as a call of its own and as
\* called by factorization.
C4_RhoFindsFactor ==
    /\ (call.fn = "pollard_rho" /\ IsComposite(call.n)) =>
          /\ ~Panicked
          /\ Returned => /\ result.tag = "factor"
                         /\ 1 < result.val /\ result.val < call.n
                         /\ call.n % result.val = 0
    /\ (call.fn = "factorization" /\ pc = "pollard_rho_ret" /\ IsComposite(Top.n)) =>
          /\ 1 < result.val /\ result.val < Top.n
          /\ Top.n % result.val = 0

C4_Witness ==
    /\ call.fn = "pollard_rho"
    /\ call.n = 25
    /\ Returned
    /\ result.val = 5

\* C5: mul_mod(a, b, m) with a, b < m < 2^Width returns (a*b) mod m computed in
\* unbounded integers and never fails to narrow.
C5_MulModExact ==
    (call.fn = "mul_mod" /\ pc # "mul_mod") =>
        /\ result.tag = "value"
        /\ result.val = (call.a * call.b) % call.n

C5_Witness ==
    /\ call.fn = "mul_mod"
    /\ Returned
    /\ call.a * call.b >= U128Modulus
    /\ result.val > 0

\* C6: is_prime(n) and miller_rabin_test(n, k) never panic for n >= 2.
C6_PrimalityNeverPanics ==
    (call.fn \in {"is_prime", "miller_rabin_test"} /\ call.n >= 2) => ~Panicked

C8_SeedsDistinct ==
    IsComposite(rho.n) =>
        \A i, j \in 1..Len(tried) : i # j => tried[i] # tried[j]

\* C9: in factorization(n), n >= 2, the remaining n of every active call is
\* >= 2, pollard_rho is only called on composites >= 4, and no assert fails.
C9_FactorizationInvariant ==
    call.fn = "factorization" =>
        /\ \A j \in 1..Len(frames) : frames[j].n >= 2
        /\ pc = "is_prime" => ip >= 2
        /\ rho # NoRho => IsComposite(rho.n)
        /\ ~Panicked

C9_Witness ==
    /\ call.fn = "factorization"
    /\ pc = "pollard_rho"
    /\ Top.at = "L15"
    /\ Top.ret # <<>>
    /\ Top.n < call.n

OnceShape ==
    \/ result.tag = "None"
    \/ /\ result.tag = "Some"
       /\ 1 < result.val /\ result.val < call.n
       /\ call.n % result.val = 0

====
